---- MODULE Spec2Model ----
(***************************************************************************)
(* Model of the MySQL dialect connection of duckling                      *)
(* (src/connector/src/dialect/mysql/mod.rs).                              *)
(*                                                                         *)
(* The connection object is stateless between calls and every operation   *)
(* is a synchronous, isolated handler.  The state of the model is the     *)
(* last call: the operation, its arguments, what the backend driver       *)
(* delivered, the SQL text that was sent and what the handler produced    *)
(* (the locals of _query and the returned value).                         *)
(*                                                                         *)
(* Text is modelled as a sequence of one-character strings, so that       *)
(* formatting, splitting and prefix/suffix stripping are computed on the  *)
(* characters.  Byte strings are sequences of byte symbols: an ASCII      *)
(* character stands for its byte, "xC3" "xA9" are the two bytes of a      *)
(* two-byte UTF-8 character and "xFF" is a byte no UTF-8 text contains.   *)
(*                                                                         *)
(* TLC's integers are 32 bits wide, so i64/u64/usize are modelled with    *)
(* IntBits bits; the range boundaries are kept relative to    *)
(* that width.                                                             *)
(***************************************************************************)
EXTENDS Integers, Sequences, FiniteSets, TLC

VARIABLES
  op,       \* the operation of the last call ("none" before the first)
  arg,      \* its arguments
  backend,  \* what the driver delivered to that call
  sql,      \* the SQL text the call sent (<<>> when none was built)
  fields,   \* _query: the schema fields built from the cursor's header
  titles,   \* _query: the titles built from the cursor's header
  tables,   \* _query: the per-column buffers after streaming
  arrs,     \* _query: the typed arrays built from the buffers
  ret       \* the outcome of the call: Ok / Err / Panic

vars == <<op, arg, backend, sql, fields, titles, tables, arrs, ret>>

(***************************************************************************)
(* Bounds of the model.                                                    *)
(***************************************************************************)
IntBits == 4         \* width of the modelled i64 / u64 / usize
MaxCols == 2         \* columns of a result header
MaxRows == 2         \* items (rows or row errors) of one result set
MaxCells == 4        \* cells delivered by one cursor, over all its rows
MaxCatalogRows == 3  \* rows of the column catalog

(***************************************************************************)
(* Integer ranges (scaled to IntBits).                                     *)
(***************************************************************************)
I64_MAX == 2^(IntBits - 1) - 1
I64_MIN == -(2^(IntBits - 1))
U64_MAX == 2^IntBits - 1

(***************************************************************************)
(* Option<T> and the outcome of one cell conversion.                       *)
(***************************************************************************)
None == [kind |-> "None"]
Some(x) == [kind |-> "Some", v |-> x]
PanicCell == [kind |-> "Panic"]

(***************************************************************************)
(* mysql::Value, the tagged union the driver delivers per cell.  A float   *)
(* is the decimal number m * 10^(-e), with e minimal.                      *)
(***************************************************************************)
Value_NULL == [tag |-> "NULL"]
Value_Int(n) == [tag |-> "Int", n |-> n]
Value_UInt(n) == [tag |-> "UInt", n |-> n]
Value_Float(m, e) == [tag |-> "Float", f |-> [m |-> m, e |-> e]]
Value_Double(m, e) == [tag |-> "Double", f |-> [m |-> m, e |-> e]]
Value_Bytes(b) == [tag |-> "Bytes", b |-> b]

(***************************************************************************)
(* Decimal text.                                                           *)
(***************************************************************************)
Digits == <<"0", "1", "2", "3", "4", "5", "6", "7", "8", "9">>

IsDigit(c) == \E d \in 1..10 : Digits[d] = c

DigitVal(c) == (CHOOSE d \in 1..10 : Digits[d] = c) - 1

RECURSIVE NatToDecimal(_)
NatToDecimal(n) ==
  IF n < 10 THEN <<Digits[n + 1]>>
  ELSE NatToDecimal(n \div 10) \o <<Digits[(n % 10) + 1]>>

\* The text the server sends for the integer n.
ToDecimal(n) == IF n < 0 THEN <<"-">> \o NatToDecimal(-n) ELSE NatToDecimal(n)

AllDigits(s) == Len(s) > 0 /\ \A i \in 1..Len(s) : IsDigit(s[i])

RECURSIVE DigitsToNat(_)
DigitsToNat(s) ==
  IF s = <<>> THEN 0
  ELSE 10 * DigitsToNat(SubSeq(s, 1, Len(s) - 1)) + DigitVal(s[Len(s)])

\* Parse of a signed decimal integer: [ok |-> FALSE] when the bytes are not
\* an optional sign followed by digits.
ParseInteger(b) ==
  IF AllDigits(b) THEN [ok |-> TRUE, v |-> DigitsToNat(b)]
  ELSE IF Len(b) > 1 /\ b[1] = "-" /\ AllDigits(Tail(b))
       THEN [ok |-> TRUE, v |-> -DigitsToNat(Tail(b))]
       ELSE [ok |-> FALSE]

RECURSIVE DotAt(_, _)
DotAt(s, i) ==
  IF i > Len(s) THEN 0 ELSE IF s[i] = "." THEN i ELSE DotAt(s, i + 1)

RECURSIVE NormFloat(_, _)
NormFloat(m, e) ==
  IF e > 0 /\ m % 10 = 0 THEN NormFloat(m \div 10, e - 1) ELSE [m |-> m, e |-> e]

\* Parse of a decimal number with an optional sign and an optional fraction.
ParseFloat(b) ==
  LET neg == Len(b) > 0 /\ b[1] = "-"
      body == IF neg THEN Tail(b) ELSE b
      dot == DotAt(body, 1)
      ip == IF dot = 0 THEN body ELSE SubSeq(body, 1, dot - 1)
      fp == IF dot = 0 THEN <<>> ELSE SubSeq(body, dot + 1, Len(body))
      mag == DigitsToNat(ip \o fp)
  IN IF AllDigits(ip) /\ (dot = 0 \/ AllDigits(fp))
     THEN [ok |-> TRUE, v |-> NormFloat(IF neg THEN -mag ELSE mag, Len(fp))]
     ELSE [ok |-> FALSE]

\* String::from_utf8: whether the bytes are well-formed UTF-8.
RECURSIVE Utf8Valid(_)
Utf8Valid(b) ==
  IF b = <<>> THEN TRUE
  ELSE IF b[1] = "xFF" \/ b[1] = "xA9" THEN FALSE
  ELSE IF b[1] = "xC3"
       THEN Len(b) >= 2 /\ b[2] = "xA9" /\ Utf8Valid(SubSeq(b, 3, Len(b)))
       ELSE Utf8Valid(Tail(b))

(***************************************************************************)
(* mysql::from_value::<T>: [ok |-> TRUE, v |-> x] or, when the value       *)
(* cannot be converted to T, [ok |-> FALSE] (from_value panics).          *)
(***************************************************************************)
InRange(r, lo, hi) == IF r.ok /\ r.v >= lo /\ r.v <= hi THEN r ELSE [ok |-> FALSE]

from_value_i64(val) ==
  CASE val.tag = "Int" -> InRange([ok |-> TRUE, v |-> val.n], I64_MIN, I64_MAX)
    [] val.tag = "UInt" -> InRange([ok |-> TRUE, v |-> val.n], I64_MIN, I64_MAX)
    [] val.tag = "Bytes" -> InRange(ParseInteger(val.b), I64_MIN, I64_MAX)
    [] OTHER -> [ok |-> FALSE]

from_value_usize(val) ==
  CASE val.tag = "Int" -> InRange([ok |-> TRUE, v |-> val.n], 0, U64_MAX)
    [] val.tag = "UInt" -> InRange([ok |-> TRUE, v |-> val.n], 0, U64_MAX)
    [] val.tag = "Bytes" -> InRange(ParseInteger(val.b), 0, U64_MAX)
    [] OTHER -> [ok |-> FALSE]

from_value_f64(val) ==
  CASE val.tag = "Float" -> [ok |-> TRUE, v |-> val.f]
    [] val.tag = "Double" -> [ok |-> TRUE, v |-> val.f]
    [] val.tag = "Bytes" -> ParseFloat(val.b)
    [] OTHER -> [ok |-> FALSE]

from_value_bytes(val) ==
  CASE val.tag = "Bytes" -> [ok |-> TRUE, v |-> val.b]
    [] OTHER -> [ok |-> FALSE]

\* `let val = from_value::<T>(..); Some(val)`: the value, or the panic.
SomeOrPanic(r) == IF r.ok THEN Some(r.v) ELSE PanicCell

(***************************************************************************)
(* The per-cell conversions.                                               *)
(***************************************************************************)
convert_to_str(unknown_val) ==
  IF unknown_val.tag = "Bytes"
  THEN LET val == from_value_bytes(unknown_val)
       IN IF ~val.ok THEN PanicCell
          ELSE IF Utf8Valid(val.v) THEN Some(val.v) ELSE None
  ELSE None

convert_to_i64(unknown_val) ==
  CASE unknown_val.tag = "Int" -> SomeOrPanic(from_value_i64(unknown_val))
    [] unknown_val.tag = "UInt" -> SomeOrPanic(from_value_i64(unknown_val))
    [] unknown_val.tag = "Bytes" -> SomeOrPanic(from_value_i64(unknown_val))
    [] OTHER -> None

convert_to_f64(unknown_val) ==
  CASE unknown_val.tag = "Float" -> SomeOrPanic(from_value_f64(unknown_val))
    [] unknown_val.tag = "Double" -> SomeOrPanic(from_value_f64(unknown_val))
    [] unknown_val.tag = "Bytes" -> SomeOrPanic(from_value_f64(unknown_val))
    [] OTHER -> None

convert_to_str_arr(values) == [j \in 1..Len(values) |-> convert_to_str(values[j])]

convert_to_i64_arr(values) == [j \in 1..Len(values) |-> convert_to_i64(values[j])]

convert_to_f64_arr(values) == [j \in 1..Len(values) |-> convert_to_f64(values[j])]

(***************************************************************************)
(* mysql::consts::ColumnType.  The sixteen tags the two matches of _query  *)
(* name, and three of the tags they leave to the `_` arm.                  *)
(***************************************************************************)
IntegerTypes ==
  {"MYSQL_TYPE_TINY", "MYSQL_TYPE_INT24", "MYSQL_TYPE_SHORT", "MYSQL_TYPE_LONG",
   "MYSQL_TYPE_LONGLONG"}

FloatTypes ==
  {"MYSQL_TYPE_DECIMAL", "MYSQL_TYPE_NEWDECIMAL", "MYSQL_TYPE_FLOAT",
   "MYSQL_TYPE_YEAR", "MYSQL_TYPE_DOUBLE"}

StringTypes == {"MYSQL_TYPE_STRING", "MYSQL_TYPE_VAR_STRING", "MYSQL_TYPE_VARCHAR"}

OtherTypes == {"MYSQL_TYPE_TIMESTAMP", "MYSQL_TYPE_JSON", "MYSQL_TYPE_TIME"}

ColumnTypes ==
  IntegerTypes \cup FloatTypes \cup StringTypes
    \cup {"MYSQL_TYPE_DATETIME", "MYSQL_TYPE_DATE", "MYSQL_TYPE_BLOB"} \cup OtherTypes

\* The literal of line 200.
TypeTagLiteral == <<"M","Y","S","Q","L","_","T","Y","P","E","_">>

\* format!("{:?}", col.column_type()): the tag's name.
DebugName(t) ==
  CASE
       t = "MYSQL_TYPE_TINY" -> TypeTagLiteral \o <<"T","I","N","Y">>
    [] t = "MYSQL_TYPE_INT24" -> TypeTagLiteral \o <<"I","N","T","2","4">>
    [] t = "MYSQL_TYPE_SHORT" -> TypeTagLiteral \o <<"S","H","O","R","T">>
    [] t = "MYSQL_TYPE_LONG" -> TypeTagLiteral \o <<"L","O","N","G">>
    [] t = "MYSQL_TYPE_LONGLONG" -> TypeTagLiteral \o <<"L","O","N","G","L","O","N","G">>
    [] t = "MYSQL_TYPE_DECIMAL" -> TypeTagLiteral \o <<"D","E","C","I","M","A","L">>
    [] t = "MYSQL_TYPE_NEWDECIMAL" -> TypeTagLiteral \o <<"N","E","W","D","E","C","I","M","A","L">>
    [] t = "MYSQL_TYPE_FLOAT" -> TypeTagLiteral \o <<"F","L","O","A","T">>
    [] t = "MYSQL_TYPE_YEAR" -> TypeTagLiteral \o <<"Y","E","A","R">>
    [] t = "MYSQL_TYPE_DOUBLE" -> TypeTagLiteral \o <<"D","O","U","B","L","E">>
    [] t = "MYSQL_TYPE_DATETIME" -> TypeTagLiteral \o <<"D","A","T","E","T","I","M","E">>
    [] t = "MYSQL_TYPE_DATE" -> TypeTagLiteral \o <<"D","A","T","E">>
    [] t = "MYSQL_TYPE_BLOB" -> TypeTagLiteral \o <<"B","L","O","B">>
    [] t = "MYSQL_TYPE_STRING" -> TypeTagLiteral \o <<"S","T","R","I","N","G">>
    [] t = "MYSQL_TYPE_VAR_STRING" -> TypeTagLiteral \o <<"V","A","R","_","S","T","R","I","N","G">>
    [] t = "MYSQL_TYPE_VARCHAR" -> TypeTagLiteral \o <<"V","A","R","C","H","A","R">>
    [] t = "MYSQL_TYPE_TIMESTAMP" -> TypeTagLiteral \o <<"T","I","M","E","S","T","A","M","P">>
    [] t = "MYSQL_TYPE_JSON" -> TypeTagLiteral \o <<"J","S","O","N">>
    [] t = "MYSQL_TYPE_TIME" -> TypeTagLiteral \o <<"T","I","M","E">>

\* str::strip_suffix
strip_suffix(s, suffix) ==
  IF Len(s) >= Len(suffix) /\ SubSeq(s, Len(s) - Len(suffix) + 1, Len(s)) = suffix
  THEN Some(SubSeq(s, 1, Len(s) - Len(suffix)))
  ELSE None

\* Option::unwrap_or
unwrap_or(o, default) == IF o.kind = "Some" THEN o.v ELSE default

\* The display type name of a title (lines 199-200).
TitleType(t) ==
  LET type_ == DebugName(t)
  IN unwrap_or(strip_suffix(type_, TypeTagLiteral), type_)

\* The first match of _query: the schema field's DataType.
FieldType(t) ==
  CASE t \in IntegerTypes -> "Int64"
    [] t \in FloatTypes -> "Float64"
    [] t = "MYSQL_TYPE_DATETIME" -> "Utf8"
    [] t = "MYSQL_TYPE_DATE" -> "Utf8"
    [] t = "MYSQL_TYPE_BLOB" -> "Utf8"
    [] t \in StringTypes -> "Utf8"
    [] OTHER -> "Binary"

Int64Array(data) == [dtype |-> "Int64", data |-> data]
Float64Array(data) == [dtype |-> "Float64", data |-> data]
StringArray(data) == [dtype |-> "Utf8", data |-> data]

\* The second match of _query: the array built from one column buffer.
ArrayFor(t, col) ==
  CASE t \in IntegerTypes -> Int64Array(convert_to_i64_arr(col))
    [] t \in FloatTypes -> Float64Array(convert_to_f64_arr(col))
    [] t \in StringTypes -> StringArray(convert_to_str_arr(col))
    [] t = "MYSQL_TYPE_DATETIME" -> StringArray(convert_to_str_arr(col))
    [] t = "MYSQL_TYPE_DATE" -> StringArray(convert_to_str_arr(col))
    [] t = "MYSQL_TYPE_BLOB" -> StringArray(convert_to_str_arr(col))
    [] OTHER -> StringArray(convert_to_str_arr(col))

\* The header loop of _query.
HeaderFields(columns) ==
  [i \in 1..Len(columns) |->
     [name |-> columns[i].name, dtype |-> FieldType(columns[i].type), nullable |-> TRUE]]

HeaderTitles(columns) ==
  [i \in 1..Len(columns) |->
     [name |-> columns[i].name, type |-> TitleType(columns[i].type)]]

HeaderTypes(columns) == [i \in 1..Len(columns) |-> columns[i].type]

(***************************************************************************)
(* The streaming loop of _query.  An item of a result set is a row         *)
(* [ok |-> TRUE, cells |-> ...] or a row the driver failed to read         *)
(* [ok |-> FALSE].  The loop state is the buffers and whether an index     *)
(* into them was out of bounds (tables[i] panics).                         *)
(***************************************************************************)
\* Mutation of PushRow: the value is inserted at the front of the buffer.
PushRow_Front(tabs, cells) ==
  [panic |-> Len(cells) > Len(tabs),
   tables |-> [i \in 1..Len(tabs) |->
                 IF i <= Len(cells) THEN <<cells[i]>> \o tabs[i] ELSE tabs[i]]]

\* for (i, _col) in row.columns_ref().iter().enumerate() { tables[i].push(val) }
PushRow(tabs, cells) ==
  [panic |-> Len(cells) > Len(tabs),
   tables |-> [i \in 1..Len(tabs) |->
                 IF i <= Len(cells) THEN Append(tabs[i], cells[i]) ELSE tabs[i]]]

\* for row in result_set.flatten() { .. }: flatten yields the rows and
\* passes over the items that are errors.
RECURSIVE StreamItems(_, _)
StreamItems(st, items) ==
  IF st.panic \/ items = <<>> THEN st
  ELSE IF Head(items).ok
       THEN StreamItems(PushRow(st.tables, Head(items).cells), Tail(items))
       ELSE StreamItems(st, Tail(items))

\* Mutation of StreamSets: `if let` for `while let`, only the first result
\* set is streamed.
StreamSets_FirstOnly(st, sets) ==
  IF sets = <<>> THEN st ELSE StreamItems(st, Head(sets))

\* while let Some(result_set) = result.iter() { .. }
RECURSIVE StreamSets(_, _)
StreamSets(st, sets) ==
  IF st.panic \/ sets = <<>> THEN st
  ELSE StreamSets(StreamItems(st, Head(sets)), Tail(sets))

\* let mut tables = (0..k).map(|_| vec![]).collect()
EmptyTables(k) == [i \in 1..k |-> <<>>]

Min(a, b) == IF a <= b THEN a ELSE b

\* for (type_, col) in types.iter().zip(tables) { arrs.push(..) }
BuildArrays(types, tabs) ==
  [i \in 1..Min(Len(types), Len(tabs)) |-> ArrayFor(types[i], tabs[i])]

ArrayPanics(arr) == \E j \in 1..Len(arr.data) : arr.data[j].kind = "Panic"

\* The arrays pushed before the first conversion that panics.
RECURSIVE ArraysBuilt(_)
ArraysBuilt(as) ==
  IF as = <<>> \/ ArrayPanics(Head(as)) THEN <<>>
  ELSE <<Head(as)>> \o ArraysBuilt(Tail(as))

\* arrow's RecordBatch::try_new: the schema and the columns must have the
\* same number of entries, at least one, every column the length of the
\* first, and every column the data type of its schema field.
RecordBatch_try_new(schema, columns) ==
  IF /\ Len(schema) = Len(columns)
     /\ Len(columns) > 0
     /\ \A i \in 1..Len(columns) : Len(columns[i].data) = Len(columns[1].data)
     /\ \A i \in 1..Len(columns) : columns[i].dtype = schema[i].dtype
  THEN [ok |-> TRUE, num_rows |-> Len(columns[1].data)]
  ELSE [ok |-> FALSE]

(***************************************************************************)
(* Outcomes of a call.                                                     *)
(***************************************************************************)
Err(e) == [kind |-> "Err", err |-> e]
Panic == [kind |-> "Panic"]

NoLocals == [fields |-> <<>>, titles |-> <<>>, tables |-> <<>>, arrs |-> <<>>]

\* _query against what the backend delivered: the locals and the outcome.
query_impl(sqltext, reply) ==
  IF reply.kind = "ConnErr" THEN [loc |-> NoLocals, ret |-> Err("connection")]
  ELSE IF reply.kind = "QueryErr" THEN [loc |-> NoLocals, ret |-> Err("query")]
  ELSE
    LET columns == reply.cols
        k == Len(columns)
        fs == HeaderFields(columns)
        ts == HeaderTitles(columns)
        types == HeaderTypes(columns)
        st == StreamSets([panic |-> FALSE, tables |-> EmptyTables(k)], reply.sets)
        as == BuildArrays(types, st.tables)
        built == ArraysBuilt(as)
        batch == RecordBatch_try_new(fs, as)
    IN IF st.panic
       THEN [loc |-> [fields |-> fs, titles |-> ts, tables |-> st.tables, arrs |-> <<>>],
             ret |-> Panic]
       ELSE IF Len(built) < Len(as)
       THEN [loc |-> [fields |-> fs, titles |-> ts, tables |-> st.tables, arrs |-> built],
             ret |-> Panic]
       ELSE IF ~batch.ok
       THEN [loc |-> [fields |-> fs, titles |-> ts, tables |-> st.tables, arrs |-> as],
             ret |-> Err("batch")]
       ELSE [loc |-> [fields |-> fs, titles |-> ts, tables |-> st.tables, arrs |-> as],
             ret |-> [kind |-> "Ok", total |-> batch.num_rows, schema |-> fs,
                      columns |-> as, titles |-> ts, sql |-> sqltext]]

(***************************************************************************)
(* The other operations.                                                   *)
(***************************************************************************)
\* str::contains(char)
contains(s, c) == \E i \in 1..Len(s) : s[i] = c

IndexOf(s, c) == CHOOSE i \in 1..Len(s) : s[i] = c /\ \A j \in 1..(i - 1) : s[j] # c

\* table.splitn(2, '.'): the text before the first separator and the rest.
splitn2(s, c) ==
  IF contains(s, c)
  THEN <<SubSeq(s, 1, IndexOf(s, c) - 1), SubSeq(s, IndexOf(s, c) + 1, Len(s))>>
  ELSE <<s>>

SqlColumnsHead == <<"s","e","l","e","c","t"," ","*"," ","f","r","o","m"," ","i","n","f","o","r","m","a","t","i","o","n","_","s","c","h","e","m","a",".","c","o","l","u","m","n","s"," ","w","h","e","r","e"," ","t","a","b","l","e","_","s","c","h","e","m","a","=","'">>
SqlColumnsMid == <<"'"," ","a","n","d"," ","t","a","b","l","e","_","n","a","m","e","=","'">>
SqlColumnsTail == <<"'">>

\* The (db, tbl) pair show_column filters on.
ShowColumnTarget(schema, table) ==
  IF schema.kind = "None" /\ contains(table, ".")
  THEN LET parts == splitn2(table, ".") IN <<parts[1], parts[2]>>
  ELSE <<<<>>, table>>

\* The SQL text show_column formats.
ShowColumnSql(schema, table) ==
  LET t == ShowColumnTarget(schema, table)
  IN SqlColumnsHead \o t[1] \o SqlColumnsMid \o t[2] \o SqlColumnsTail

SqlCountHead == <<"s","e","l","e","c","t"," ","c","o","u","n","t","(","*",")"," ","f","r","o","m"," ">>
SqlWhere == <<" ","w","h","e","r","e"," ">>

\* Mutation of TableRowCountSql: the where clause is appended even when it
\* is empty.
TableRowCountSql_AlwaysWhere(table, cond) == SqlCountHead \o table \o SqlWhere \o cond

\* The SQL text _table_row_count formats.
TableRowCountSql(table, cond) ==
  LET q == SqlCountHead \o table
  IN IF cond # <<>> THEN q \o SqlWhere \o cond ELSE q

\* from_row::<usize>: a row of exactly one column whose value converts.
from_row_usize(cells) ==
  IF Len(cells) = 1 THEN from_value_usize(cells[1]) ELSE [ok |-> FALSE]

\* Conn::query_first::<usize, _>: Ok(None) without a first row, Ok(Some(n))
\* with one, the driver's error, or the panic of from_row.
query_first(reply) ==
  IF reply.kind = "ConnErr" THEN Err("connection")
  ELSE IF reply.kind = "QueryErr" THEN Err("query")
  ELSE IF reply.sets = <<>> \/ Head(reply.sets) = <<>> THEN [kind |-> "Ok", v |-> None]
  ELSE IF ~Head(Head(reply.sets)).ok THEN Err("row")
  ELSE LET r == from_row_usize(Head(Head(reply.sets)).cells)
       IN IF r.ok THEN [kind |-> "Ok", v |-> Some(r.v)] ELSE Panic

\* Mutation of query_count: `unwrap_or_default()`, no row counts as zero.
query_count_default(reply) ==
  LET first == query_first(reply)
  IN IF first.kind # "Ok" THEN first
     ELSE [kind |-> "Ok", total |-> IF first.v.kind = "Some" THEN first.v.v ELSE 0]

\* query_count: `if let Some(total) = ..? { Ok(total) } else { Err(anyhow!("null")) }`
query_count(reply) ==
  LET first == query_first(reply)
  IN IF first.kind # "Ok" THEN first
     ELSE IF first.v.kind = "Some" THEN [kind |-> "Ok", total |-> first.v.v]
     ELSE Err("null")

\* _table_row_count: `..? .ok_or_else(|| anyhow!("No value found"))`
table_row_count(reply) ==
  LET first == query_first(reply)
  IN IF first.kind # "Ok" THEN first
     ELSE IF first.v.kind = "Some" THEN [kind |-> "Ok", total |-> first.v.v]
     ELSE Err("No value found")

(***************************************************************************)
(* _all_columns: the catalog rows <<db, table, col, dtype>> grouped by     *)
(* <<db, table>> in a HashMap, whose iteration order is arbitrary.         *)
(***************************************************************************)
KeyOf(row) == <<row[1], row[2]>>

\* Mutation of GroupPush: `insert(key, vec![..])`, the entry is replaced.
GroupPush_Overwrite(groups, row) ==
  [g \in DOMAIN groups \cup {KeyOf(row)} |->
     IF g = KeyOf(row) THEN <<<<row[3], row[4]>>>> ELSE groups[g]]

\* groups.entry((db, table)).or_insert_with(Vec::new).push((col, dtype))
GroupPush(groups, row) ==
  LET key == KeyOf(row)
      old == IF key \in DOMAIN groups THEN groups[key] ELSE <<>>
  IN [g \in DOMAIN groups \cup {key} |->
        IF g = key THEN Append(old, <<row[3], row[4]>>) ELSE groups[g]]

RECURSIVE GroupRows(_, _)
GroupRows(groups, rows) ==
  IF rows = <<>> THEN groups ELSE GroupRows(GroupPush(groups, Head(rows)), Tail(rows))

EmptyGroups == [g \in {} |-> <<>>]

\* The orders in which into_iter may visit the entries.
IterationOrders(groups) ==
  {o \in [1..Cardinality(DOMAIN groups) -> DOMAIN groups] :
     \A i, j \in DOMAIN o : i # j => o[i] # o[j]}

\* groups.into_iter().map(..).collect(), visited in `order`.
MetadataList(groups, order) ==
  [i \in 1..Len(order) |->
     [database |-> order[i][1], table |-> order[i][2], columns |-> groups[order[i]]]]

(***************************************************************************)
(* What the backend can deliver, within the bounds.                        *)
(***************************************************************************)
ConnErr == [kind |-> "ConnErr"]
QueryErr == [kind |-> "QueryErr"]
Cursor(cols, sets) == [kind |-> "Cursor", cols |-> cols, sets |-> sets]

RowOk(cells) == [ok |-> TRUE, cells |-> cells]
RowErr == [ok |-> FALSE]

\* The cells a column of type t carries: NULL or the text form the server
\* sends (query_iter speaks the text protocol).  An unsigned BIGINT column
\* may carry a number above the i64 range; a text column may carry bytes
\* that are not UTF-8.
CellsOf(t) ==
  CASE t \in IntegerTypes ->
         {Value_NULL, Value_Bytes(ToDecimal(-1)), Value_Bytes(ToDecimal(I64_MAX + 1))}
    [] t \in FloatTypes -> {Value_NULL, Value_Bytes(<<"1", ".", "5">>)}
    [] t \in OtherTypes -> {Value_NULL, Value_Bytes(<<"a", "b">>)}
    [] OTHER -> {Value_NULL, Value_Bytes(<<"a", "b">>), Value_Bytes(<<"xFF">>)}

CellSamples == UNION {CellsOf(t) : t \in ColumnTypes}

ColumnName(t) ==
  CASE t \in IntegerTypes -> <<"i", "d">>
    [] t \in FloatTypes -> <<"p", "r", "i", "c", "e">>
    [] t \in OtherTypes -> <<"t", "s">>
    [] OTHER -> <<"n", "a", "m", "e">>

Column(t) == [name |-> ColumnName(t), type |-> t]

\* One type per conversion.
DataTypes == {"MYSQL_TYPE_LONGLONG", "MYSQL_TYPE_NEWDECIMAL", "MYSQL_TYPE_VAR_STRING"}

HeadersOver(types) == UNION {[1..n -> {Column(t) : t \in types}] : n \in 0..MaxCols}

RowsOf(h) == {r \in [1..Len(h) -> CellSamples] : \A i \in 1..Len(h) : r[i] \in CellsOf(h[i].type)}

\* The rows of one result set of shape h, at most `budget` cells in all.
OkSeqs(h, budget) ==
  IF Len(h) = 0 THEN {<<>>}
  ELSE UNION {[1..n -> {RowOk(r) : r \in RowsOf(h)}] : n \in 0..Min(MaxRows, budget \div Len(h))}

\* A result set: rows, and possibly a row error, which ends the set.
ItemSeqs(h, budget) ==
  OkSeqs(h, budget) \cup {Append(s, RowErr) : s \in {x \in OkSeqs(h, budget) : Len(x) < MaxRows}}

RECURSIVE CellCount(_)
CellCount(items) ==
  IF items = <<>> THEN 0
  ELSE (IF Head(items).ok THEN Len(Head(items).cells) ELSE 0) + CellCount(Tail(items))

\* The shapes a later result set of the same statement may have.
Reshapes(h) ==
  {h, Append(h, Column("MYSQL_TYPE_VAR_STRING"))}
    \cup (IF Len(h) > 0 THEN {SubSeq(h, 1, Len(h) - 1)} ELSE {})

\* The result sets after the first: none, or one more.
LaterSets(h, budget) ==
  {<<>>} \cup UNION {{<<s>> : s \in ItemSeqs(h2, budget)} : h2 \in Reshapes(h)}

\* Cursors of every header over all the column types, with no row.
HeaderCursors == {Cursor(h, <<<<>>>>) : h \in HeadersOver(ColumnTypes)}

\* The replies that carry no row.  The cursors with rows have a header over
\* the data types, a first result set and the later ones, MaxCells cells
\* in all (see Query).
PlainReplies == {ConnErr, QueryErr} \cup HeaderCursors

\* What a catalog listing delivers to show_column.
ListingReplies ==
  {ConnErr, QueryErr}
    \cup {Cursor(<<Column("MYSQL_TYPE_VAR_STRING")>>, <<s>>)
          : s \in {<<>>, <<RowOk(<<Value_Bytes(<<"a", "b">>)>>)>>}}

\* What a counting query delivers.
CountCells ==
  {Value_NULL, Value_Int(-1), Value_UInt(U64_MAX), Value_Bytes(ToDecimal(0)),
   Value_Bytes(ToDecimal(I64_MAX)), Value_Bytes(ToDecimal(U64_MAX + 1))}

CountReplies ==
  {ConnErr, QueryErr}
    \cup {Cursor(<<Column("MYSQL_TYPE_LONGLONG")>>, <<s>>)
          : s \in {<<>>, <<RowErr>>} \cup {<<RowOk(<<c>>)>> : c \in CountCells}}
    \cup {Cursor(<<Column("MYSQL_TYPE_LONGLONG"), Column("MYSQL_TYPE_LONGLONG")>>,
                 <<<<RowOk(<<Value_Bytes(ToDecimal(1)), Value_Bytes(ToDecimal(1))>>)>>>>)}

\* Texts the callers pass.
SelectOne == <<"s","e","l","e","c","t"," ","1">>
Orders == <<"o","r","d","e","r","s">>
Paid == <<"s","t","a","t","u","s","=","'","p","a","i","d","'">>
Db == <<"d","b">>
Db1 == <<"d","b","1">>
Db2 == <<"d","b","2">>
Tbl == <<"t","b","l">>
T1 == <<"t","1">>
T2 == <<"t","2">>

SqlSamples == {SelectOne}
SchemaNames == {Db, Db1}
BareTables == {Tbl, T1}
TableArgs ==
  BareTables \cup {d \o <<".">> \o t : d \in SchemaNames, t \in BareTables}
    \cup {Db \o <<".">> \o T1 \o <<".">> \o Tbl}
SchemaArgs == {None} \cup {Some(d) : d \in SchemaNames}
CountTables == {Orders, T1}
Conditions == {<<>>, Paid, <<"x">>}
CountSqls == {SelectOne, SqlCountHead \o Orders}

\* The rows of the column catalog, in the order the catalog query gives
\* them: by schema and table, then by ordinal position.
TypeInt == <<"i", "n", "t">>
TypeText == <<"t", "e", "x", "t">>
CatalogColumns ==
  {<<<<"a">>, TypeInt>>, <<<<"b">>, TypeText>>, <<<<"c">>, TypeInt>>, <<<<"a">>, TypeText>>}
CatalogKeys == <<<<Db1, T1>>, <<Db1, T2>>, <<Db2, T1>>>>
KeyRank(key) == CHOOSE i \in 1..Len(CatalogKeys) : CatalogKeys[i] = key

CatalogRow == {<<CatalogKeys[i][1], CatalogKeys[i][2], c[1], c[2]>>
               : i \in 1..Len(CatalogKeys), c \in CatalogColumns}

CatalogListings ==
  {rows \in UNION {[1..n -> CatalogRow] : n \in 0..MaxCatalogRows} :
     /\ \A i \in 1..(Len(rows) - 1) : KeyRank(KeyOf(rows[i])) <= KeyRank(KeyOf(rows[i + 1]))
     /\ \A i, j \in 1..Len(rows) :
          (i # j /\ KeyOf(rows[i]) = KeyOf(rows[j])) => rows[i][3] # rows[j][3]}

CatalogReplies == {ConnErr, QueryErr} \cup {[kind |-> "Rows", rows |-> rows] : rows \in CatalogListings}

(***************************************************************************)
(* The state machine: one action per operation of the connection.  No      *)
(* call shares a connection or any mutable state with another (each opens  *)
(* its own connection and drops it), so a behaviour is the connection      *)
(* after construction followed by one call.                                *)
(***************************************************************************)
NoReply == [kind |-> "None"]
NoResult == [kind |-> "None"]

Init ==
  /\ op = "none"
  /\ arg = <<>>
  /\ backend = NoReply
  /\ sql = <<>>
  /\ fields = <<>>
  /\ titles = <<>>
  /\ tables = <<>>
  /\ arrs = <<>>
  /\ ret = NoResult

SetLocals(loc) ==
  /\ fields' = loc.fields
  /\ titles' = loc.titles
  /\ tables' = loc.tables
  /\ arrs' = loc.arrs

\* query(sql, _limit, _offset): the SQL is run verbatim by _query.
QueryWith(s, reply) ==
  LET r == query_impl(s, reply)
  IN /\ op' = "query"
     /\ arg' = [sql |-> s]
     /\ backend' = reply
     /\ sql' = s
     /\ SetLocals(r.loc)
     /\ ret' = r.ret

Query ==
  /\ op = "none"
  /\ \E s \in SqlSamples :
       \/ \E reply \in PlainReplies : QueryWith(s, reply)
       \/ \E h \in HeadersOver(DataTypes) :
            \E first \in ItemSeqs(h, MaxCells) :
              \E rest \in LaterSets(h, MaxCells - CellCount(first)) :
                QueryWith(s, Cursor(h, <<first>> \o rest))

\* show_column(schema, table): formats the catalog query and runs it.
ShowColumn ==
  /\ op = "none"
  /\ \E schema \in SchemaArgs, table \in TableArgs, reply \in ListingReplies :
    LET s == ShowColumnSql(schema, table)
        r == query_impl(s, reply)
    IN /\ op' = "show_column"
       /\ arg' = [schema |-> schema, table |-> table]
       /\ backend' = reply
       /\ sql' = s
       /\ SetLocals(r.loc)
       /\ ret' = r.ret

\* query_count(sql)
QueryCount ==
  /\ op = "none"
  /\ \E s \in CountSqls, reply \in CountReplies :
    /\ op' = "query_count"
    /\ arg' = [sql |-> s]
    /\ backend' = reply
    /\ sql' = (IF reply.kind = "ConnErr" THEN <<>> ELSE s)
    /\ SetLocals(NoLocals)
    /\ ret' = query_count(reply)

\* table_row_count(table, where)
TableRowCount ==
  /\ op = "none"
  /\ \E table \in CountTables, cond \in Conditions, reply \in CountReplies :
    /\ op' = "table_row_count"
    /\ arg' = [table |-> table, cond |-> cond]
    /\ backend' = reply
    /\ sql' = (IF reply.kind = "ConnErr" THEN <<>> ELSE TableRowCountSql(table, cond))
    /\ SetLocals(NoLocals)
    /\ ret' = table_row_count(reply)

\* all_columns(): the catalog rows grouped, in one of the orders the map
\* may be iterated in.
AllColumns ==
  /\ op = "none"
  /\ \E reply \in CatalogReplies :
    /\ op' = "all_columns"
    /\ arg' = <<>>
    /\ backend' = reply
    /\ sql' = <<>>
    /\ SetLocals(NoLocals)
    /\ IF reply.kind = "ConnErr" THEN ret' = Err("connection")
       ELSE IF reply.kind = "QueryErr" THEN ret' = Err("query")
       ELSE LET groups == GroupRows(EmptyGroups, reply.rows)
            IN \E order \in IterationOrders(groups) :
                 ret' = [kind |-> "Ok", list |-> MetadataList(groups, order)]

Next == Query \/ ShowColumn \/ QueryCount \/ TableRowCount \/ AllColumns

Spec == Init /\ [][Next]_vars

(***************************************************************************)
(* The per-cell conversions on their own: a value of each variant is       *)
(* converted to each target type.                                          *)
(***************************************************************************)
ConvertTargets == {"i64", "f64", "str"}

ValueSamples ==
  {Value_NULL, Value_Float(15, 1), Value_Double(25, 1), Value_Double(-5, 1)}
    \cup {Value_Int(n) : n \in {I64_MIN, -1, 0, I64_MAX}}
    \cup {Value_UInt(n) : n \in {0, I64_MAX, I64_MAX + 1, U64_MAX}}
    \cup {Value_Bytes(ToDecimal(n)) : n \in {I64_MIN, 0, I64_MAX, I64_MAX + 1}}
    \cup {Value_Bytes(b) : b \in {<<>>, <<"-">>, <<"1", ".", "5">>, <<"a", "b">>,
                                  <<"xC3", "xA9">>, <<"xC3">>, <<"xFF">>}}

ConvertCell(target, val) ==
  CASE target = "i64" -> convert_to_i64(val)
    [] target = "f64" -> convert_to_f64(val)
    [] target = "str" -> convert_to_str(val)

InitConv ==
  /\ op = "convert"
  /\ arg \in [target : ConvertTargets, value : ValueSamples]
  /\ backend = NoReply
  /\ sql = <<>>
  /\ fields = <<>>
  /\ titles = <<>>
  /\ tables = <<>>
  /\ arrs = <<>>
  /\ ret = [kind |-> "Pending"]

Convert ==
  /\ op = "convert"
  /\ ret.kind = "Pending"
  /\ ret' = ConvertCell(arg.target, arg.value)
  /\ UNCHANGED <<op, arg, backend, sql, fields, titles, tables, arrs>>

NextConv == Convert

SpecConv == InitConv /\ [][NextConv]_vars

(***************************************************************************)
(* Properties.                                                             *)
(***************************************************************************)
RECURSIVE OkCells(_)
OkCells(items) ==
  IF items = <<>> THEN <<>>
  ELSE (IF Head(items).ok THEN <<Head(items).cells>> ELSE <<>>) \o OkCells(Tail(items))

\* The rows the cursor yields, over all its result sets, in order.
RECURSIVE StreamedRows(_)
StreamedRows(sets) ==
  IF sets = <<>> THEN <<>> ELSE OkCells(Head(sets)) \o StreamedRows(Tail(sets))

HasRowError(sets) ==
  \E n \in 1..Len(sets) : \E j \in 1..Len(sets[n]) : ~sets[n][j].ok

RanQuery == op \in {"query", "show_column"}

\* C1: for every native column type of the header, the logical type the
\* schema declares for the column is the element type of the array built
\* for it (the `_` arm included).
C1_SchemaTypeIsArrayType ==
  (RanQuery /\ backend.kind = "Cursor") =>
    \A i \in 1..Len(arrs) : fields[i].dtype = arrs[i].dtype

\* C2: a returned batch has as many schema fields, arrays and titles as the
\* cursor has columns, every array has one entry per streamed row (over all
\* result sets), and the total is that number of rows.
C2_BatchShape ==
  (RanQuery /\ ret.kind = "Ok") =>
    LET k == Len(backend.cols)
        n == Len(StreamedRows(backend.sets))
    IN /\ Len(ret.schema) = k
       /\ Len(ret.columns) = k
       /\ Len(ret.titles) = k
       /\ \A i \in 1..Len(ret.columns) : Len(ret.columns[i].data) = n
       /\ ret.total = n

\* A two-column batch whose two rows came from two result sets.
C2_Witness ==
  /\ op = "query"
  /\ ret.kind = "Ok"
  /\ Len(backend.cols) = 2
  /\ Len(backend.sets) = 2
  /\ Len(backend.sets[1]) = 1
  /\ Len(backend.sets[2]) = 1
  /\ ret.total = 2
  /\ ret.columns[1].data[1] = None

IntegerLike(val) ==
  \/ val.tag \in {"Int", "UInt"}
  \/ val.tag = "Bytes" /\ ParseInteger(val.b).ok

\* C3: each conversion returns a value or null and never aborts; to
\* Integer64, SignedInt, UnsignedInt and Bytes that parse as an integer
\* give a value and every other input gives null.
C3_ConversionsTotal ==
  (op = "convert" /\ ret.kind # "Pending") =>
    /\ ret.kind \in {"Some", "None"}
    /\ arg.target = "i64" => (ret.kind = "Some" <=> IntegerLike(arg.value))
    /\ arg.target = "i64" => (ret.kind = "None" <=> ~IntegerLike(arg.value))

ColumnsSqlFor(db, tbl) ==
  <<"s","e","l","e","c","t"," ","*"," ","f","r","o","m"," ","i","n","f","o","r","m","a","t","i","o","n","_","s","c","h","e","m","a",".","c","o","l","u","m","n","s"," ","w","h","e","r","e"," ","t","a","b","l","e","_","s","c","h","e","m","a","=","'">>
    \o db \o <<"'"," ","a","n","d"," ","t","a","b","l","e","_","n","a","m","e","=","'">> \o tbl \o <<"'">>

\* C4: show_column(None, "db.tbl") and show_column(Some("db"), "tbl") send
\* the same SQL text, which filters on table_schema = db and table_name = tbl.
C4_ShowColumnSameSql ==
  op = "show_column" =>
    \A d \in SchemaNames, t \in BareTables :
      (\/ arg = [schema |-> None, table |-> d \o <<".">> \o t]
       \/ arg = [schema |-> Some(d), table |-> t])
        => sql = ColumnsSqlFor(d, t)

\* C5: when reading a row of the cursor fails, the query returns no batch
\* (a returned batch holds every row the backend produced).
C5_NoPartialBatch ==
  (RanQuery /\ backend.kind = "Cursor" /\ HasRowError(backend.sets)) => ret.kind # "Ok"

RowsOfKey(rows, key) == SelectSeq(rows, LAMBDA r : <<r[1], r[2]>> = key)

\* C6: all_columns returns one Metadata entry per distinct (database, table)
\* of the catalog rows, each with exactly that key's (column, type) rows in
\* catalog order, whatever the order of the entries.
C6_AllColumnsGroups ==
  (op = "all_columns" /\ ret.kind = "Ok") =>
    LET rows == backend.rows
        keys == {<<rows[i][1], rows[i][2]>> : i \in 1..Len(rows)}
        list == ret.list
    IN /\ Len(list) = Cardinality(keys)
       /\ \A key \in keys :
            Cardinality({i \in 1..Len(list) : <<list[i].database, list[i].table>> = key}) = 1
       /\ \A i \in 1..Len(list) :
            LET mine == RowsOfKey(rows, <<list[i].database, list[i].table>>)
            IN list[i].columns = [j \in 1..Len(mine) |-> <<mine[j][3], mine[j][4]>>]

\* (db1,t1) with [(a,int),(b,text)] and (db1,t2) with [(c,int)], returned
\* with the entry of t2 first.
C6_Witness ==
  /\ op = "all_columns"
  /\ ret.kind = "Ok"
  /\ backend.rows = <<<<Db1, T1, <<"a">>, TypeInt>>, <<Db1, T1, <<"b">>, TypeText>>,
                      <<Db1, T2, <<"c">>, TypeInt>>>>
  /\ Len(ret.list) = 2
  /\ ret.list[1].table = T2
  /\ ret.list[2].columns = <<<<<<"a">>, TypeInt>>, <<<<"b">>, TypeText>>>>

NoFirstRow == backend.kind = "Cursor" /\ Head(backend.sets) = <<>>

\* C7: query_count on a query that yields no row returns the "no value"
\* error, never a count; it returns a count only when there is a first row.
C7_QueryCountEmpty ==
  op = "query_count" =>
    /\ NoFirstRow => ret = Err("null")
    /\ ret.kind = "Ok" =>
         (backend.kind = "Cursor" /\ Head(backend.sets) # <<>> /\ Head(Head(backend.sets)).ok)

C7_Witness == op = "query_count" /\ NoFirstRow /\ ret.kind = "Err" /\ sql = SqlCountHead \o Orders

StripPrefixOrKeep(name, prefix) ==
  IF Len(name) >= Len(prefix) /\ SubSeq(name, 1, Len(prefix)) = prefix
  THEN SubSeq(name, Len(prefix) + 1, Len(name))
  ELSE name

\* C9: the display type name of each title is the tag's name without the
\* MYSQL_TYPE_ prefix (the full name when it does not start with it).
C9_TitleStripsPrefix ==
  (RanQuery /\ backend.kind = "Cursor") =>
    \A i \in 1..Len(titles) :
      titles[i].type = StripPrefixOrKeep(DebugName(backend.cols[i].type), <<"M","Y","S","Q","L","_","T","Y","P","E","_">>)

TextTypes == StringTypes \cup {"MYSQL_TYPE_DATETIME", "MYSQL_TYPE_DATE", "MYSQL_TYPE_BLOB"}

ConversionFor(t, cell) ==
  CASE t \in IntegerTypes -> convert_to_i64(cell)
    [] t \in FloatTypes -> convert_to_f64(cell)
    [] OTHER -> convert_to_str(cell)

\* C10: in a returned batch, entry j of array i is the conversion of the
\* cell at column i of the j-th streamed row: a null cell gives a null at
\* that position, an integer cell and a text cell give their exact value
\* there, and a null entry comes from a null cell (or from bytes that are
\* not UTF-8).
C10_RowAlignment ==
  (RanQuery /\ ret.kind = "Ok") =>
    LET rows == StreamedRows(backend.sets)
    IN \A i \in 1..Len(ret.columns) : \A j \in 1..Len(rows) :
         LET t == backend.cols[i].type
             cell == rows[j][i]
             e == ret.columns[i].data[j]
         IN /\ e = ConversionFor(t, cell)
            /\ cell = Value_NULL => e = None
            /\ (t \in IntegerTypes /\ cell.tag = "Bytes") =>
                 (e.kind = "Some" /\ ToDecimal(e.v) = cell.b)
            /\ (t \in TextTypes /\ cell.tag = "Bytes" /\ Utf8Valid(cell.b)) => e = Some(cell.b)
            /\ e = None =>
                 (cell = Value_NULL \/ (t \in TextTypes /\ cell.tag = "Bytes" /\ ~Utf8Valid(cell.b)))

\* An integer column and a text column with one null cell each, in
\* different rows.
C10_Witness ==
  /\ op = "query"
  /\ ret.kind = "Ok"
  /\ HeaderTypes(backend.cols) = <<"MYSQL_TYPE_LONGLONG", "MYSQL_TYPE_VAR_STRING">>
  /\ StreamedRows(backend.sets) =
       <<<<Value_NULL, Value_Bytes(<<"a", "b">>)>>, <<Value_Bytes(<<"-", "1">>), Value_NULL>>>>
  /\ ret.columns[1].data = <<None, Some(-1)>>
  /\ ret.columns[2].data = <<Some(<<"a", "b">>), None>>

====
